---- MODULE Spec2Model ----
(***************************************************************************)
(* xsv join (src/cmd/join.rs): one run of `xsv join`, from argument        *)
(* parsing to the last record written.                                     *)
(*                                                                         *)
(* A CSV input is a sequence of records, a record a sequence of fields, a  *)
(* field a byte string.  A csv::Reader is the input plus the index of the  *)
(* next record its raw field interface yields; byte offsets are computed   *)
(* from the lengths of the records, so that the offset table of the value  *)
(* index holds byte offsets and a seek converts an offset back to a        *)
(* record.                                                                 *)
(***************************************************************************)
EXTENDS Integers, Sequences, FiniteSets, TLC

VARIABLES
    args,          \* Args: the parsed command line (columns, inputs, flags)
    pc,            \* position of main: start, match, join, scan, sweep, done, error
    rdr1,          \* IoState.rdr1
    rdr2,          \* IoState.rdr2 (moved into validx.idx by ValueIndex::new)
    sel1,          \* IoState.sel1
    sel2,          \* IoState.sel2
    wtr,           \* IoState.wtr: the records written so far, in order
    nheaders,      \* number of records written by write_headers (write_bytes)
    validx,        \* the ValueIndex of inner_join, outer_join, full_outer_join
    pads,          \* the result of get_padding: <<pad1, pad2>>
    rdr2_written,  \* full_outer_join: one flag per ordinal (in ordinal order)
    sweep_i,       \* full_outer_join: position of the second loop
    err            \* the CliError main returns, "" while there is none

vars == <<args, pc, rdr1, rdr2, sel1, sel2, wtr, nheaders, validx, pads,
          rdr2_written, sweep_i, err>>

----------------------------------------------------------------------------
(* Bounds of the enumerated inputs.                                        *)

MaxRows1 == 2      \* records after the first one in input1
MaxRows2 == 2      \* records after the first one in input2

Widths == {1, 2}                 \* fields per record of an input
\* The records after the first one, by width: fields of one and two bytes.
Rows(w) ==
    IF w = 1 THEN {<<"x">>, <<"yy">>}
    ELSE {<<"x", "x">>, <<"x", "yy">>, <<"yy", "x">>}
Header1 == <<"a", "b">>          \* first record of input1 (cut to its width)
Header2 == <<"a", "c">>          \* first record of input2 (cut to its width)
ColumnSpecs == {<<1>>, <<1, 2>>, <<2, 1>>}          \* 1-based column lists

----------------------------------------------------------------------------
(* Sequences.                                                              *)

RECURSIVE SumLen(_)
SumLen(fields) ==
    IF fields = <<>> THEN 0 ELSE Len(Head(fields)) + SumLen(Tail(fields))

RECURSIVE Flatten(_)
Flatten(ss) == IF ss = <<>> THEN <<>> ELSE Head(ss) \o Flatten(Tail(ss))

SeqsUpTo(S, n) == UNION {[1..k -> S] : k \in 0..n}

EmptyFields(n) == [i \in 1..n |-> ""]      \* n times util::empty_field()

----------------------------------------------------------------------------
(* The csv reader, as join.rs uses it.                                     *)

\* Bytes one record takes in the file: its fields, the delimiters between
\* them and the line terminator.
RecordBytes(rec) == SumLen(rec) + Len(rec)

\* rdr.byte_offset() when the reader stands at the start of record k.
RECURSIVE ByteOffset(_, _)
ByteOffset(data, k) ==
    IF k <= 1 THEN 0 ELSE ByteOffset(data, k - 1) + RecordBytes(data[k - 1])

\* rdr.seek(offset): the record that starts at that byte.
SeekPos(data, offset) ==
    CHOOSE k \in 1..(Len(data) + 1) : ByteOffset(data, k) = offset

\* A reader on an input that nothing has read yet.
Reader(data) == [data |-> data, pos |-> 1, replay |-> FALSE]

\* rdr.done(): no record is left for the raw interface.
Done(rdr) == rdr.pos > Len(rdr.data)

\* The fields the raw interface yields up to the end of the current record
\* (none when the input is exhausted), and the reader after them.
RawFields(rdr) == IF Done(rdr) THEN <<>> ELSE rdr.data[rdr.pos]
RawSkip(rdr) == IF Done(rdr) THEN rdr ELSE [rdr EXCEPT !.pos = @ + 1]

\* rdr.byte_headers(): the first record; the first call reads it.  When
\* headers are not interpreted, the record iterator yields it again as the
\* first data record; the raw interface does not.
Headers(rdr) == IF rdr.data = <<>> THEN <<>> ELSE rdr.data[1]
ReadHeaders(rdr, no_headers) ==
    IF rdr.pos = 1 /\ rdr.data # <<>>
    THEN [rdr EXCEPT !.pos = 2, !.replay = no_headers]
    ELSE rdr

\* rdr.byte_records(): is there a next record, which, and the reader after.
HasRecord(rdr) == rdr.replay \/ ~Done(rdr)
NextRecord(rdr) == IF rdr.replay THEN rdr.data[1] ELSE rdr.data[rdr.pos]
AfterRecord(rdr) ==
    IF rdr.replay THEN [rdr EXCEPT !.replay = FALSE]
    ELSE [rdr EXCEPT !.pos = @ + 1]

----------------------------------------------------------------------------
(* Selections.                                                             *)

\* SelectColumns::selection: 1-based column numbers to 0-based positions.
Selection(columns) == [i \in 1..Len(columns) |-> columns[i] - 1]

\* Selection::select: the key tuple of a row.
Select(sel, row) == [i \in 1..Len(sel) |-> row[sel[i] + 1]]

----------------------------------------------------------------------------
(* ValueIndex.                                                             *)

\* The state of ValueIndex::new before its loop: no key, the offset table
\* holding the entry of the first record (offset 0), ordinal counter 0.
ValueIndexStart(rdr) ==
    [values |-> <<>>, rows |-> <<0>>, num_rows |-> 0, idx |-> rdr]

\* Entry with the ordinal pushed at the front of its bucket.
EntryAtFront(values, fields, rowi) ==
    [k \in (DOMAIN values) \cup {fields} |->
        IF k = fields
        THEN (IF fields \in DOMAIN values
              THEN <<rowi>> \o values[fields] ELSE <<rowi>>)
        ELSE values[k]]

\* val_idx.entry(fields): a new bucket holding rowi, or rowi pushed at the
\* end of the bucket there is.
Entry(values, fields, rowi) ==
    [k \in (DOMAIN values) \cup {fields} |->
        IF k = fields
        THEN (IF fields \in DOMAIN values
              THEN Append(values[fields], rowi) ELSE <<rowi>>)
        ELSE values[k]]

\* ValueIndexRow with the byte offset taken after the record is read.
ValueIndexRowOffsetAfter(vi, nsel) ==
    [values   |-> Entry(vi.values, Select(nsel, RawFields(vi.idx)), vi.num_rows),
     rows     |-> Append(vi.rows, ByteOffset(vi.idx.data, vi.idx.pos + 1)),
     num_rows |-> vi.num_rows + 1,
     idx      |-> RawSkip(vi.idx)]

\* One pass of the loop of ValueIndex::new: record the byte offset, read
\* the record through the selection, enter its ordinal, count it.
ValueIndexRow(vi, nsel) ==
    [values   |-> Entry(vi.values, Select(nsel, RawFields(vi.idx)), vi.num_rows),
     rows     |-> Append(vi.rows, ByteOffset(vi.idx.data, vi.idx.pos)),
     num_rows |-> vi.num_rows + 1,
     idx      |-> RawSkip(vi.idx)]

\* ValueIndex::new, the loop run until rdr.done().
RECURSIVE ValueIndexNew(_, _)
ValueIndexNew(vi, nsel) ==
    IF Done(vi.idx) THEN vi ELSE ValueIndexNew(ValueIndexRow(vi, nsel), nsel)

\* validx.idx.seek(rowi): the table's entry 0 is the first record's, read
\* as the header, so that the row of ordinal rowi has entry rowi + 1.
IndexedSeek(vi, rowi) ==
    [vi EXCEPT !.idx.pos = SeekPos(vi.idx.data, vi.rows[rowi + 2])]

\* validx.values.find(&val)
Find(vi, val) == IF val \in DOMAIN vi.values THEN vi.values[val] ELSE <<>>
Found(vi, val) == val \in DOMAIN vi.values

----------------------------------------------------------------------------
(* The bodies of the join loops.  Each gives the records written for one   *)
(* row of the scanned input and the index after the seeks.                 *)

\* Combined with the row of rdr1 always first.
CombinedRowFirst(row, row2, right) == row \o row2

\* The record written for row and the record at the index's reader; with
\* `right`, the index's record goes first.
Combined(row, row2, right) == IF right THEN row2 \o row ELSE row \o row2

\* for &rowi in rows.iter() { seek(rowi); write(row ++ record) }
RECURSIVE WriteMatches(_, _, _, _)
WriteMatches(vi, rows, row, right) ==
    IF rows = <<>> THEN [validx |-> vi, recs |-> <<>>]
    ELSE LET at   == IndexedSeek(vi, Head(rows))
             rec  == Combined(row, RawFields(at.idx), right)
             rest == WriteMatches([at EXCEPT !.idx = RawSkip(at.idx)],
                                  Tail(rows), row, right)
         IN  [validx |-> rest.validx, recs |-> <<rec>> \o rest.recs]

\* InnerJoinRow writing the first match only.
InnerJoinRowFirstMatch(vi, sel, row) ==
    LET val == Select(sel, row)
    IN  IF ~Found(vi, val) THEN [validx |-> vi, recs |-> <<>>]
        ELSE WriteMatches(vi, <<Head(Find(vi, val))>>, row, FALSE)

\* inner_join, one row of rdr1.
InnerJoinRow(vi, sel, row) ==
    LET val == Select(sel, row)
    IN  IF ~Found(vi, val) THEN [validx |-> vi, recs |-> <<>>]
        ELSE WriteMatches(vi, Find(vi, val), row, FALSE)

\* outer_join, one row of rdr1 (after the swap, when right).
OuterJoinRow(vi, sel, pad2, row, right) ==
    LET val == Select(sel, row)
    IN  IF ~Found(vi, val)
        THEN [validx |-> vi, recs |-> <<Combined(row, pad2, right)>>]
        ELSE WriteMatches(vi, Find(vi, val), row, right)

\* MarkWritten setting the flag of the first matched ordinal only.
MarkWrittenFirst(written, rows) ==
    [i \in 1..Len(written) |->
        written[i] \/ (rows # <<>> /\ rows[1] + 1 = i)]

\* full_outer_join, first loop: the flags of the matched ordinals set.
MarkWritten(written, rows) ==
    [i \in 1..Len(written) |->
        written[i] \/ (\E j \in 1..Len(rows) : rows[j] + 1 = i)]

\* full_outer_join, first loop, one row of rdr1.
FullOuterJoinRow(vi, sel, pad2, written, row1) ==
    LET val == Select(sel, row1)
    IN  IF ~Found(vi, val)
        THEN [validx |-> vi, recs |-> <<row1 \o pad2>>, written |-> written]
        ELSE LET w == WriteMatches(vi, Find(vi, val), row1, FALSE)
             IN  [validx |-> w.validx, recs |-> w.recs,
                  written |-> MarkWritten(written, Find(vi, val))]

\* full_outer_join, second loop, one ordinal i: the record written, if any.
SweepRow(vi, pad1, written, i) ==
    IF written[i + 1] THEN [validx |-> vi, recs |-> <<>>]
    ELSE LET at == IndexedSeek(vi, i)
         IN  [validx |-> [at EXCEPT !.idx = RawSkip(at.idx)],
              recs   |-> <<pad1 \o RawFields(at.idx)>>]

\* cross_join, one row of rdr1: rdr2 from its start, one record skipped,
\* then one record written per pass of `while !self.rdr2.done()`.
RECURSIVE CrossWrite(_, _, _)
CrossWrite(rdr, row1, first) ==
    IF Done(rdr) THEN [rdr |-> rdr, recs |-> <<>>]
    ELSE LET r    == IF first THEN RawSkip(rdr) ELSE rdr
             rec  == row1 \o RawFields(r)
             rest == CrossWrite(RawSkip(r), row1, FALSE)
         IN  [rdr |-> rest.rdr, recs |-> <<rec>> \o rest.recs]

CrossJoinRow(rdr, row1) == CrossWrite([rdr EXCEPT !.pos = 1], row1, TRUE)

\* GetPadding with both paddings as long as the header of rdr1.
GetPaddingLen1(r1, r2) ==
    <<EmptyFields(Len(Headers(r1))), EmptyFields(Len(Headers(r1)))>>

\* get_padding: one empty field per header field of rdr1, and of rdr2.
GetPadding(r1, r2) ==
    <<EmptyFields(Len(Headers(r1))), EmptyFields(Len(Headers(r2)))>>

\* JoinedHeaders with the headers of rdr2 first.
JoinedHeadersReversed(r1, r2) == Headers(r2) \o Headers(r1)

\* write_headers: the record it writes.
JoinedHeaders(r1, r2) == Headers(r1) \o Headers(r2)

\* SameLength without the comparison.
SameLengthUnchecked(select1, select2) == TRUE

\* get_selections: the two selections have the same number of columns.
SameLength(select1, select2) == Len(select1) = Len(select2)

\* main's match on (flag_left, flag_right, flag_full, flag_cross).
Mode(a) ==
    LET f == <<a.flag_left, a.flag_right, a.flag_full, a.flag_cross>>
    IN  CASE f = <<TRUE, FALSE, FALSE, FALSE>>  -> "left"
          [] f = <<FALSE, TRUE, FALSE, FALSE>>  -> "right"
          [] f = <<FALSE, FALSE, TRUE, FALSE>>  -> "full"
          [] f = <<FALSE, FALSE, FALSE, TRUE>>  -> "cross"
          [] f = <<FALSE, FALSE, FALSE, FALSE>> -> "inner"
          [] OTHER -> "none"

\* outer_join's loop over rdr1.byte_records(), run to its end: the records
\* written.
RECURSIVE OuterJoinScan(_, _, _, _, _)
OuterJoinScan(vi, rdr, sel, pad2, right) ==
    IF ~HasRecord(rdr) THEN <<>>
    ELSE LET r == OuterJoinRow(vi, sel, pad2, NextRecord(rdr), right)
         IN  r.recs \o OuterJoinScan(r.validx, AfterRecord(rdr), sel, pad2, right)

\* outer_join(false) on a fresh IoState whose rdr1 reads inputA and whose
\* rdr2 reads inputB: the records written.
LeftOuterJoin(inputA, columnsA, inputB, columnsB, no_headers) ==
    LET r1 == ReadHeaders(Reader(inputA), no_headers)
        r2 == ReadHeaders(Reader(inputB), no_headers)
    IN  OuterJoinScan(ValueIndexNew(ValueIndexStart(r2), Selection(columnsB)),
                      r1, Selection(columnsA), GetPadding(r1, r2)[2], FALSE)

----------------------------------------------------------------------------
(* The inputs of a run.                                                    *)

Inputs(header, maxrows) ==
    UNION {{<<SubSeq(header, 1, w)>> \o rows :
                rows \in SeqsUpTo(Rows(w), maxrows)} : w \in Widths}

\* Column lists the selection resolver accepts for an input.
ColumnsOf(input) ==
    {c \in ColumnSpecs : \A i \in 1..Len(c) : c[i] <= Len(input[1])}

FlagChoices ==
    {<<FALSE, FALSE, FALSE, FALSE>>, <<TRUE, FALSE, FALSE, FALSE>>,
     <<FALSE, TRUE, FALSE, FALSE>>, <<FALSE, FALSE, TRUE, FALSE>>,
     <<FALSE, FALSE, FALSE, TRUE>>, <<TRUE, TRUE, FALSE, FALSE>>}

NoIndex == ValueIndexStart(Reader(<<>>))

Init ==
    /\ \E i1 \in Inputs(Header1, MaxRows1), i2 \in Inputs(Header2, MaxRows2),
          f \in FlagChoices, n \in BOOLEAN :
         \E c1 \in ColumnsOf(i1), c2 \in ColumnsOf(i2) :
            args = [arg_columns1 |-> c1, arg_input1 |-> i1,
                    arg_columns2 |-> c2, arg_input2 |-> i2,
                    flag_left |-> f[1], flag_right |-> f[2],
                    flag_full |-> f[3], flag_cross |-> f[4],
                    flag_no_headers |-> n]
    /\ pc = "start"
    /\ rdr1 = Reader(<<>>)
    /\ rdr2 = Reader(<<>>)
    /\ sel1 = <<>>
    /\ sel2 = <<>>
    /\ wtr = <<>>
    /\ nheaders = 0
    /\ validx = NoIndex
    /\ pads = <<<<>>, <<>>>>
    /\ rdr2_written = <<>>
    /\ sweep_i = 0
    /\ err = ""

----------------------------------------------------------------------------
(* main.                                                                   *)

\* args.new_io_state(), get_selections included: both readers opened, both
\* headers read, both selections resolved and their lengths compared.
new_io_state ==
    /\ pc = "start"
    /\ LET r1 == ReadHeaders(Reader(args.arg_input1), args.flag_no_headers)
           r2 == ReadHeaders(Reader(args.arg_input2), args.flag_no_headers)
           select1 == Selection(args.arg_columns1)
           select2 == Selection(args.arg_columns2)
       IN  IF ~SameLength(select1, select2)
           THEN /\ pc' = "error"
                /\ err' = "ColumnCountMismatch"
                /\ rdr1' = r1
                /\ rdr2' = r2
                /\ UNCHANGED <<sel1, sel2>>
           ELSE /\ pc' = "match"
                /\ rdr1' = r1
                /\ rdr2' = r2
                /\ sel1' = select1
                /\ sel2' = select2
                /\ err' = ""
    /\ UNCHANGED <<args, wtr, nheaders, validx, pads, rdr2_written, sweep_i>>

\* The last arm of main's match: not exactly one join operation.
pick_one ==
    /\ pc = "match"
    /\ Mode(args) = "none"
    /\ pc' = "error"
    /\ err' = "PickOne"
    /\ UNCHANGED <<args, rdr1, rdr2, sel1, sel2, wtr, nheaders, validx, pads,
                   rdr2_written, sweep_i>>

\* state.write_headers(), the first call of every other arm.
write_headers ==
    /\ pc = "match"
    /\ Mode(args) # "none"
    /\ IF ~args.flag_no_headers
       THEN /\ wtr' = Append(wtr, JoinedHeaders(rdr1, rdr2))
            /\ nheaders' = nheaders + 1
       ELSE UNCHANGED <<wtr, nheaders>>
    /\ pc' = "join"
    /\ UNCHANGED <<args, rdr1, rdr2, sel1, sel2, validx, pads, rdr2_written,
                   sweep_i, err>>

----------------------------------------------------------------------------
(* inner_join, outer_join, full_outer_join: up to the built index.         *)

inner_join_begin ==
    /\ pc = "join"
    /\ Mode(args) = "inner"
    /\ validx' = ValueIndexStart(rdr2)
    /\ pc' = "index"
    /\ UNCHANGED <<args, rdr1, rdr2, sel1, sel2, wtr, nheaders, pads,
                   rdr2_written, sweep_i, err>>

\* outer_join(right): the swap, get_padding, then the index over rdr2.
outer_join_begin ==
    /\ pc = "join"
    /\ Mode(args) \in {"left", "right"}
    /\ LET right == Mode(args) = "right"
           r1 == IF right THEN rdr2 ELSE rdr1
           r2 == IF right THEN rdr1 ELSE rdr2
       IN  /\ rdr1' = r1
           /\ rdr2' = r2
           /\ sel1' = (IF right THEN sel2 ELSE sel1)
           /\ sel2' = (IF right THEN sel1 ELSE sel2)
           /\ pads' = GetPadding(r1, r2)
           /\ validx' = ValueIndexStart(r2)
    /\ pc' = "index"
    /\ UNCHANGED <<args, wtr, nheaders, rdr2_written, sweep_i, err>>

full_outer_join_begin ==
    /\ pc = "join"
    /\ Mode(args) = "full"
    /\ pads' = GetPadding(rdr1, rdr2)
    /\ validx' = ValueIndexStart(rdr2)
    /\ pc' = "index"
    /\ UNCHANGED <<args, rdr1, rdr2, sel1, sel2, wtr, nheaders, rdr2_written,
                   sweep_i, err>>

\* ValueIndex::new, one pass of `while !rdr.done()`.
ValueIndex_new_row ==
    /\ pc = "index"
    /\ ~Done(validx.idx)
    /\ validx' = ValueIndexRow(validx, sel2)
    /\ UNCHANGED <<args, pc, rdr1, rdr2, sel1, sel2, wtr, nheaders, pads,
                   rdr2_written, sweep_i, err>>

\* ValueIndex::new returns; full_outer_join allocates rdr2_written.
ValueIndex_new_return ==
    /\ pc = "index"
    /\ Done(validx.idx)
    /\ rdr2_written' = (IF Mode(args) = "full"
                        THEN [i \in 1..validx.num_rows |-> FALSE]
                        ELSE rdr2_written)
    /\ pc' = "scan"
    /\ UNCHANGED <<args, rdr1, rdr2, sel1, sel2, wtr, nheaders, validx, pads,
                   sweep_i, err>>

----------------------------------------------------------------------------
(* The loops over rdr1.byte_records().                                     *)

inner_join_row ==
    /\ pc = "scan"
    /\ Mode(args) = "inner"
    /\ HasRecord(rdr1)
    /\ LET r == InnerJoinRow(validx, sel1, NextRecord(rdr1))
       IN  /\ wtr' = wtr \o r.recs
           /\ validx' = r.validx
    /\ rdr1' = AfterRecord(rdr1)
    /\ UNCHANGED <<args, pc, rdr2, sel1, sel2, nheaders, pads, rdr2_written,
                   sweep_i, err>>

outer_join_row ==
    /\ pc = "scan"
    /\ Mode(args) \in {"left", "right"}
    /\ HasRecord(rdr1)
    /\ LET r == OuterJoinRow(validx, sel1, pads[2], NextRecord(rdr1),
                             Mode(args) = "right")
       IN  /\ wtr' = wtr \o r.recs
           /\ validx' = r.validx
    /\ rdr1' = AfterRecord(rdr1)
    /\ UNCHANGED <<args, pc, rdr2, sel1, sel2, nheaders, pads, rdr2_written,
                   sweep_i, err>>

full_outer_join_row ==
    /\ pc = "scan"
    /\ Mode(args) = "full"
    /\ HasRecord(rdr1)
    /\ LET r == FullOuterJoinRow(validx, sel1, pads[2], rdr2_written,
                                 NextRecord(rdr1))
       IN  /\ wtr' = wtr \o r.recs
           /\ validx' = r.validx
           /\ rdr2_written' = r.written
    /\ rdr1' = AfterRecord(rdr1)
    /\ UNCHANGED <<args, pc, rdr2, sel1, sel2, nheaders, pads, sweep_i, err>>

\* inner_join and outer_join return when rdr1 has no record left;
\* full_outer_join goes on to its second loop.
scan_end ==
    /\ pc = "scan"
    /\ ~HasRecord(rdr1)
    /\ pc' = (IF Mode(args) = "full" THEN "sweep" ELSE "done")
    /\ UNCHANGED <<args, rdr1, rdr2, sel1, sel2, wtr, nheaders, validx, pads,
                   rdr2_written, sweep_i, err>>

\* full_outer_join, second loop: one ordinal of rdr2_written.
full_outer_join_sweep ==
    /\ pc = "sweep"
    /\ sweep_i < Len(rdr2_written)
    /\ LET r == SweepRow(validx, pads[1], rdr2_written, sweep_i)
       IN  /\ wtr' = wtr \o r.recs
           /\ validx' = r.validx
    /\ sweep_i' = sweep_i + 1
    /\ UNCHANGED <<args, pc, rdr1, rdr2, sel1, sel2, nheaders, pads,
                   rdr2_written, err>>

full_outer_join_return ==
    /\ pc = "sweep"
    /\ sweep_i >= Len(rdr2_written)
    /\ pc' = "done"
    /\ UNCHANGED <<args, rdr1, rdr2, sel1, sel2, wtr, nheaders, validx, pads,
                   rdr2_written, sweep_i, err>>

\* cross_join, one row of rdr1 against all of rdr2.
cross_join_row ==
    /\ pc = "join"
    /\ Mode(args) = "cross"
    /\ HasRecord(rdr1)
    /\ LET r == CrossJoinRow(rdr2, NextRecord(rdr1))
       IN  /\ wtr' = wtr \o r.recs
           /\ rdr2' = r.rdr
    /\ rdr1' = AfterRecord(rdr1)
    /\ UNCHANGED <<args, pc, sel1, sel2, nheaders, validx, pads, rdr2_written,
                   sweep_i, err>>

cross_join_return ==
    /\ pc = "join"
    /\ Mode(args) = "cross"
    /\ ~HasRecord(rdr1)
    /\ pc' = "done"
    /\ UNCHANGED <<args, rdr1, rdr2, sel1, sel2, wtr, nheaders, validx, pads,
                   rdr2_written, sweep_i, err>>

Next ==
    \/ new_io_state
    \/ pick_one
    \/ write_headers
    \/ inner_join_begin
    \/ outer_join_begin
    \/ full_outer_join_begin
    \/ ValueIndex_new_row
    \/ ValueIndex_new_return
    \/ inner_join_row
    \/ outer_join_row
    \/ full_outer_join_row
    \/ scan_end
    \/ full_outer_join_sweep
    \/ full_outer_join_return
    \/ cross_join_row
    \/ cross_join_return

Spec == Init /\ [][Next]_vars

----------------------------------------------------------------------------
(* What the joins are to write, stated on the rows of the two inputs.      *)

\* The records written after the header record.
DataRecords == SubSeq(wtr, nheaders + 1, Len(wtr))

\* The two inputs of the run and their selections.
Left == args.arg_input1
Right == args.arg_input2
LeftSel == Selection(args.arg_columns1)
RightSel == Selection(args.arg_columns2)
LeftWidth == Len(Left[1])
RightWidth == Len(Right[1])

\* The data rows of an input whose first record is its header.
DataRows(input) == Tail(input)

\* The rows of B, in B's order, whose key under selB is key.
MatchSet(B, selB, key) ==
    LET Same(b) == Select(selB, b) = key IN SelectSeq(B, Same)

\* a followed by each row of its match set in B, in B's order.
Joined(a, B, selA, selB) ==
    LET M == MatchSet(B, selB, Select(selA, a))
    IN  [j \in 1..Len(M) |-> a \o M[j]]

InnerRows(A, B, selA, selB) ==
    Flatten([i \in 1..Len(A) |-> Joined(A[i], B, selA, selB)])

\* Every row of A: with each of its matches, or once with n empty fields.
LeftRows(A, B, selA, selB, n) ==
    Flatten([i \in 1..Len(A) |->
        LET J == Joined(A[i], B, selA, selB)
        IN  IF J = <<>> THEN <<A[i] \o EmptyFields(n)>> ELSE J])

\* Every row of B: each of its matches in A before it, or n empty fields.
RightRows(A, B, selA, selB, n) ==
    Flatten([j \in 1..Len(B) |->
        LET M == MatchSet(A, selA, Select(selB, B[j]))
        IN  IF M = <<>> THEN <<EmptyFields(n) \o B[j]>>
            ELSE [i \in 1..Len(M) |-> M[i] \o B[j]]])

\* The rows among the first k of B with no match in A, each after n empty
\* fields, in B's order.
UnmatchedRows(A, B, selA, selB, n, k) ==
    LET Lone(b) == MatchSet(A, selA, Select(selB, b)) = <<>>
    IN  LET U == SelectSeq(SubSeq(B, 1, k), Lone)
        IN  [j \in 1..Len(U) |-> EmptyFields(n) \o U[j]]

CrossRows(A, B) ==
    Flatten([i \in 1..Len(A) |-> [j \in 1..Len(B) |-> A[i] \o B[j]]])

HeadersRun == ~args.flag_no_headers

----------------------------------------------------------------------------
(* The claims.                                                             *)

Exchange(rec, n) == SubSeq(rec, n + 1, Len(rec)) \o SubSeq(rec, 1, n)

C5_CrossJoin ==
    (pc = "done" /\ Mode(args) = "cross" /\ HeadersRun) =>
        /\ Len(DataRecords) = Len(DataRows(Left)) * Len(DataRows(Right))
        /\ \A k \in 1..Len(DataRecords) :
             Len(DataRecords[k]) = LeftWidth + RightWidth
        /\ DataRecords = CrossRows(DataRows(Left), DataRows(Right))

\* C6: when the two selections differ in length, main never gets past
\* new_io_state: it ends with the column count error, nothing is written,
\* no index is built, and no reader is past its first record, whatever the
\* join mode.
C6_SelectionMismatch ==
    Len(LeftSel) # Len(RightSel) =>
        /\ pc \in {"start", "error"}
        /\ pc = "error" => err = "ColumnCountMismatch"
        /\ wtr = <<>> /\ nheaders = 0
        /\ validx = NoIndex
        /\ rdr1.pos <= 2 /\ rdr2.pos <= 2
        /\ rdr1.replay \in {FALSE, args.flag_no_headers}
        /\ rdr2.replay \in {FALSE, args.flag_no_headers}

\* A run has failed on selections of different lengths, with inputs that
\* hold data rows.
C6_Witness ==
    /\ pc = "error" /\ err = "ColumnCountMismatch"
    /\ Len(LeftSel) # Len(RightSel)
    /\ Len(Left) > 1 /\ Len(Right) > 1
    /\ Mode(args) = "full"

\* What a join is to write for data rows A of the left input and B of the
\* right input.
JoinRows(mode, A, B) ==
    CASE mode = "inner" -> InnerRows(A, B, LeftSel, RightSel)
      [] mode = "left"  -> LeftRows(A, B, LeftSel, RightSel, RightWidth)
      [] mode = "right" -> RightRows(A, B, LeftSel, RightSel, LeftWidth)
      [] mode = "full"  -> LeftRows(A, B, LeftSel, RightSel, RightWidth)
                           \o UnmatchedRows(A, B, LeftSel, RightSel,
                                            LeftWidth, Len(B))
      [] mode = "cross" -> CrossRows(A, B)

\* C7: with --no-headers no header record is written, and when the join
\* has returned, whatever the mode, the records written are those of the
\* join of all the records of the two inputs, the first ones included.
C7_NoHeaders ==
    args.flag_no_headers =>
        /\ nheaders = 0
        /\ pc = "done" => wtr = JoinRows(Mode(args), Left, Right)

\* C8: in each of the five modes, once write_headers has returned: with
\* headers interpreted exactly one header record has been written, it is
\* the first record, and it is the left input's header fields followed by
\* the right input's; with headers suppressed none has been written.
\* Before write_headers nothing is written at all.
C8_Headers ==
    /\ pc \in {"start", "match", "error"} => (wtr = <<>> /\ nheaders = 0)
    /\ pc \in {"join", "index", "scan", "sweep", "done"} =>
         IF HeadersRun
         THEN /\ nheaders = 1
              /\ Len(wtr) >= 1
              /\ wtr[1] = Left[1] \o Right[1]
         ELSE nheaders = 0
    /\ pc = "index" => Len(wtr) = nheaders

\* A right outer join has returned, with the header record and a data
\* record written, on inputs whose headers differ.
C8_Witness ==
    /\ pc = "done" /\ Mode(args) = "right" /\ HeadersRun
    /\ Left[1] # Right[1]
    /\ Len(wtr) >= 2

\* The input the index is built over and its selection: the left input
\* for the right outer join, the right input otherwise.
Indexed == IF Mode(args) = "right" THEN Left ELSE Right
IndexedSel == IF Mode(args) = "right" THEN LeftSel ELSE RightSel

\* How often ordinal i occurs in a bucket.
Occurrences(bucket, i) == Cardinality({j \in 1..Len(bucket) : bucket[j] = i})

SeekAndRead(vi, i) == RawFields(IndexedSeek(vi, i).idx)

\* C10 as it is stated: when the offset of the row of ordinal i is about
\* to be recorded the offset table holds i entries; and, in a run that
\* interprets headers, once the index is built seek(i) followed by a read
\* yields the i-th data row of the indexed input, wherever the reader is.
C10_OffsetTable_Original ==
    /\ pc = "index" => Len(validx.rows) = validx.num_rows
    /\ (pc \in {"scan", "sweep", "done"} /\ Mode(args) # "cross" /\ HeadersRun) =>
         \A i \in 0..(validx.num_rows - 1) :
             SeekAndRead(validx, i) = DataRows(Indexed)[i + 1]

\* C10, amended: when the offset of the row of ordinal i is about to be
\* recorded the offset table holds i + 1 entries, the first being the
\* offset 0 of the record read as the header, so that entry i + 1 is the
\* byte offset of the row of ordinal i; and, in a run that interprets
\* headers, once the index is built seek(i) followed by a read yields the
\* i-th data row of the indexed input, wherever the reader is.
C10_OffsetTable ==
    /\ pc = "index" =>
         /\ Len(validx.rows) = validx.num_rows + 1
         /\ validx.rows[1] = 0
         /\ \A i \in 0..(validx.num_rows - 1) :
              validx.rows[i + 2] = ByteOffset(validx.idx.data, i + 2)
    /\ (pc \in {"scan", "sweep", "done"} /\ Mode(args) # "cross" /\ HeadersRun) =>
         \A i \in 0..(validx.num_rows - 1) :
             SeekAndRead(validx, i) = DataRows(Indexed)[i + 1]

\* The index is built over two rows of different byte lengths, and a seek
\* has moved its reader back from the end of the input to the first row.
C10_Witness ==
    /\ pc = "scan" /\ Mode(args) # "cross" /\ HeadersRun
    /\ validx.num_rows = 2
    /\ validx.idx.pos = 3
    /\ RecordBytes(Indexed[2]) # RecordBytes(Indexed[3])

====
